---- MODULE Spec2Model ----
(***************************************************************************)
(* Model of install-bridge.js: the installer that copies the After Effects *)
(* MCP bridge script into the ScriptUI Panels folder of the newest         *)
(* installed After Effects.  A path is the sequence of its components, the *)
(* filesystem is the set of existing directories plus the content of each  *)
(* file (0 = the file does not exist).                                     *)
(***************************************************************************)
EXTENDS Integers, Sequences, FiniteSets, TLC

\* Bounds of the model.
MaxContent == 2   \* file contents are 1..MaxContent
MaxRuns == 2      \* successive invocations of the installer

VARIABLES
  platform,          \* process.platform
  dirs,              \* filesystem: the directories that exist
  files,             \* filesystem: path -> content (0 = absent)
  pc,                \* position of the script
  possiblePaths,     \* const possiblePaths
  idx,               \* position of the for..of loop over possiblePaths
  afterEffectsPath,  \* let afterEffectsPath (<<>> models null)
  exitCode,          \* process exit status (-1 while the process runs)
  elevated,          \* the elevated subordinate copy process
  ops,               \* filesystem / child-process calls made by this run
  msgs,              \* console lines printed by this run
  run,               \* number of the current invocation
  dirs0,             \* the directories at the start of this run
  files0,            \* the files at the start of this run
  history            \* outcome and exit status of the earlier runs

vars == <<platform, dirs, files, pc, possiblePaths, idx, afterEffectsPath,
          exitCode, elevated, ops, msgs, run, dirs0, files0, history>>

Platforms == {"win32", "darwin", "linux", "freebsd"}

Range(s) == {s[k] : k \in 1..Len(s)}

\* path.join(base, ...segments)
join(base, segs) == base \o segs

\* The path itself and all its ancestors.
Ancestors(path) == {SubSeq(path, 1, k) : k \in 1..Len(path)}

getPossibleAfterEffectsPaths_AnyPlatform(p) ==
  IF p = "darwin"
  THEN << <<"/", "Applications", "Adobe After Effects 2025">>,
          <<"/", "Applications", "Adobe After Effects 2024">>,
          <<"/", "Applications", "Adobe After Effects 2023">>,
          <<"/", "Applications", "Adobe After Effects 2022">>,
          <<"/", "Applications", "Adobe After Effects 2021">> >>
  ELSE << <<"C:", "Program Files", "Adobe", "Adobe After Effects 2025">>,
          <<"C:", "Program Files", "Adobe", "Adobe After Effects 2024">>,
          <<"C:", "Program Files", "Adobe", "Adobe After Effects 2023">>,
          <<"C:", "Program Files", "Adobe", "Adobe After Effects 2022">>,
          <<"C:", "Program Files", "Adobe", "Adobe After Effects 2021">> >>

getPossibleAfterEffectsPaths(p) ==
  IF p = "win32"
  THEN << <<"C:", "Program Files", "Adobe", "Adobe After Effects 2025">>,
          <<"C:", "Program Files", "Adobe", "Adobe After Effects 2024">>,
          <<"C:", "Program Files", "Adobe", "Adobe After Effects 2023">>,
          <<"C:", "Program Files", "Adobe", "Adobe After Effects 2022">>,
          <<"C:", "Program Files", "Adobe", "Adobe After Effects 2021">> >>
  ELSE IF p = "darwin"
  THEN << <<"/", "Applications", "Adobe After Effects 2025">>,
          <<"/", "Applications", "Adobe After Effects 2024">>,
          <<"/", "Applications", "Adobe After Effects 2023">>,
          <<"/", "Applications", "Adobe After Effects 2022">>,
          <<"/", "Applications", "Adobe After Effects 2021">> >>
  ELSE << >>

\* path.join(__dirname, 'build', 'scripts', 'mcp-bridge-auto.jsx')
sourceScript == join(<<"__dirname">>, <<"build", "scripts", "mcp-bridge-auto.jsx">>)

\* destinationFolder for an installation root (undefined on other platforms:
\* the script has exited before it gets there).
destinationFolder_Newest(p, root) ==
  IF p = "win32"
  THEN join(getPossibleAfterEffectsPaths(p)[1], <<"Support Files", "Scripts", "ScriptUI Panels">>)
  ELSE IF p = "darwin"
  THEN join(getPossibleAfterEffectsPaths(p)[1], <<"Scripts", "ScriptUI Panels">>)
  ELSE << >>

destinationFolder(p, root) ==
  IF p = "win32" THEN join(root, <<"Support Files", "Scripts", "ScriptUI Panels">>)
  ELSE IF p = "darwin" THEN join(root, <<"Scripts", "ScriptUI Panels">>)
  ELSE << >>

destinationScript(p, root) == join(destinationFolder(p, root), <<"mcp-bridge-auto.jsx">>)

\* The files the model keeps a content for.
FilePaths(p) ==
  {sourceScript} \cup {destinationScript(p, r) : r \in Range(getPossibleAfterEffectsPaths(p))}

\* fs.existsSync(path)
existsSync(path) ==
  \/ path \in dirs
  \/ path \in DOMAIN files /\ files[path] # 0

\* One recorded call.
Op(name, path, res) == [op |-> name, path |-> path, res |-> res]

Init ==
  \E p \in Platforms, src \in 0..MaxContent, old \in 0..MaxContent :
    \E present \in SUBSET Range(getPossibleAfterEffectsPaths(p)) :
      \E withFolder \in SUBSET present :
        /\ platform = p
        /\ dirs = UNION {Ancestors(r) : r \in present}
                    \cup UNION {Ancestors(destinationFolder(p, r)) : r \in withFolder}
        /\ files = [f \in FilePaths(p) |->
                      IF f = sourceScript THEN src
                      ELSE IF \E r \in withFolder : f = destinationScript(p, r)
                           THEN old ELSE 0]
        /\ pc = "resolve"
        /\ possiblePaths = << >>
        /\ idx = 1
        /\ afterEffectsPath = << >>
        /\ exitCode = -1
        /\ elevated = "none"
        /\ ops = << >>
        /\ msgs = << >>
        /\ run = 1
        /\ dirs0 = dirs
        /\ files0 = files
        /\ history = << >>

\* process.exit(code)
Exit(code) == pc' = "exited" /\ exitCode' = code

\* Lines 36-43: resolve the candidate roots, reject unsupported platforms.
Resolve_ExitZero ==
  /\ pc = "resolve"
  /\ possiblePaths' = getPossibleAfterEffectsPaths(platform)
  /\ IF Len(possiblePaths') = 0
     THEN /\ msgs' = msgs \o <<"unsupported", "onlyWinMac">>
          /\ Exit(0)
     ELSE /\ pc' = "locate"
          /\ UNCHANGED <<msgs, exitCode>>
  /\ UNCHANGED <<platform, history, dirs, files, idx, afterEffectsPath, elevated, ops,
                 run, dirs0, files0>>

Resolve ==
  /\ pc = "resolve"
  /\ possiblePaths' = getPossibleAfterEffectsPaths(platform)
  /\ IF Len(possiblePaths') = 0
     THEN /\ msgs' = msgs \o <<"unsupported", "onlyWinMac">>
          /\ Exit(1)
     ELSE /\ pc' = "locate"
          /\ UNCHANGED <<msgs, exitCode>>
  /\ UNCHANGED <<platform, history, dirs, files, idx, afterEffectsPath, elevated, ops,
                 run, dirs0, files0>>

\* Lines 47-52: one iteration of the for..of loop over possiblePaths.
Probe_NoBreak ==
  /\ pc = "locate"
  /\ LET testPath == possiblePaths[idx]
         found == existsSync(testPath)
     IN /\ ops' = Append(ops, Op("existsSync", testPath, IF found THEN "true" ELSE "false"))
        /\ afterEffectsPath' = IF found THEN testPath ELSE afterEffectsPath
        /\ IF idx < Len(possiblePaths)
           THEN idx' = idx + 1 /\ pc' = pc
           ELSE idx' = idx /\ pc' = "located"
  /\ UNCHANGED <<platform, history, dirs, files, possiblePaths, exitCode, elevated,
                 msgs, run, dirs0, files0>>

Probe ==
  /\ pc = "locate"
  /\ LET testPath == possiblePaths[idx]
         found == existsSync(testPath)
     IN /\ ops' = Append(ops, Op("existsSync", testPath, IF found THEN "true" ELSE "false"))
        /\ IF found
           THEN /\ afterEffectsPath' = testPath
                /\ idx' = idx
                /\ pc' = "located"
           ELSE /\ afterEffectsPath' = afterEffectsPath
                /\ IF idx < Len(possiblePaths)
                   THEN idx' = idx + 1 /\ pc' = pc
                   ELSE idx' = idx /\ pc' = "located"
  /\ UNCHANGED <<platform, history, dirs, files, possiblePaths, exitCode, elevated,
                 msgs, run, dirs0, files0>>

\* Lines 54-64: no installation found.
CheckFound ==
  /\ pc = "located"
  /\ IF afterEffectsPath = << >>
     THEN /\ msgs' = msgs \o <<"notFound", "copyManually", "sourceRelative",
                               IF platform = "win32" THEN "targetTemplateWin"
                               ELSE "targetTemplateMac">>
          /\ Exit(1)
     ELSE /\ pc' = "checkSource"
          /\ UNCHANGED <<msgs, exitCode>>
  /\ UNCHANGED <<platform, history, dirs, files, possiblePaths, idx, afterEffectsPath,
                 elevated, ops, run, dirs0, files0>>

\* Lines 76-81: the source script must exist.
CheckSource_Continue ==
  /\ pc = "checkSource"
  /\ ops' = Append(ops, Op("existsSync", sourceScript,
                           IF existsSync(sourceScript) THEN "true" ELSE "false"))
  /\ pc' = "ensureDir"
  /\ UNCHANGED <<platform, history, dirs, files, possiblePaths, idx, afterEffectsPath,
                 exitCode, elevated, msgs, run, dirs0, files0>>

CheckSource ==
  /\ pc = "checkSource"
  /\ ops' = Append(ops, Op("existsSync", sourceScript,
                           IF existsSync(sourceScript) THEN "true" ELSE "false"))
  /\ IF ~existsSync(sourceScript)
     THEN /\ msgs' = msgs \o <<"sourceNotFound", "runBuild">>
          /\ Exit(1)
     ELSE /\ pc' = "ensureDir"
          /\ UNCHANGED <<msgs, exitCode>>
  /\ UNCHANGED <<platform, history, dirs, files, possiblePaths, idx, afterEffectsPath,
                 elevated, run, dirs0, files0>>

\* Lines 83-92: create the destination folder when it does not exist.
EnsureDir_Uncaught ==
  /\ pc = "ensureDir"
  /\ LET folder == destinationFolder(platform, afterEffectsPath)
     IN IF existsSync(folder)
        THEN /\ ops' = Append(ops, Op("existsSync", folder, "true"))
             /\ pc' = "copy"
             /\ UNCHANGED <<dirs, msgs, exitCode>>
        ELSE \E created \in BOOLEAN :
               /\ ops' = ops \o <<Op("existsSync", folder, "false"),
                                  Op("mkdirSync", folder, IF created THEN "ok" ELSE "fail")>>
               /\ IF created
                  THEN /\ dirs' = dirs \cup Ancestors(folder)
                       /\ pc' = "copy"
                       /\ UNCHANGED <<msgs, exitCode>>
                  ELSE /\ Exit(1)
                       /\ UNCHANGED <<dirs, msgs>>
  /\ UNCHANGED <<platform, history, files, possiblePaths, idx, afterEffectsPath,
                 elevated, run, dirs0, files0>>

EnsureDir_AlwaysMkdir ==
  /\ pc = "ensureDir"
  /\ LET folder == destinationFolder(platform, afterEffectsPath)
     IN \E created \in BOOLEAN :
          /\ existsSync(folder) => created
          /\ ops' = ops \o <<Op("existsSync", folder, IF existsSync(folder) THEN "true" ELSE "false"),
                             Op("mkdirSync", folder, IF created THEN "ok" ELSE "fail")>>
          /\ IF created
             THEN /\ dirs' = dirs \cup Ancestors(folder)
                  /\ pc' = "copy"
                  /\ UNCHANGED <<msgs, exitCode>>
             ELSE /\ msgs' = msgs \o <<"mkdirError", "adminHint">>
                  /\ Exit(1)
                  /\ UNCHANGED dirs
  /\ UNCHANGED <<platform, history, files, possiblePaths, idx, afterEffectsPath,
                 elevated, run, dirs0, files0>>

EnsureDir_IgnoreError ==
  /\ pc = "ensureDir"
  /\ LET folder == destinationFolder(platform, afterEffectsPath)
     IN IF existsSync(folder)
        THEN /\ ops' = Append(ops, Op("existsSync", folder, "true"))
             /\ pc' = "copy"
             /\ UNCHANGED <<dirs, msgs, exitCode>>
        ELSE \E created \in BOOLEAN :
               /\ ops' = ops \o <<Op("existsSync", folder, "false"),
                                  Op("mkdirSync", folder, IF created THEN "ok" ELSE "fail")>>
               /\ dirs' = IF created THEN dirs \cup Ancestors(folder) ELSE dirs
               /\ pc' = "copy"
               /\ UNCHANGED <<msgs, exitCode>>
  /\ UNCHANGED <<platform, history, files, possiblePaths, idx, afterEffectsPath,
                 elevated, run, dirs0, files0>>

EnsureDir ==
  /\ pc = "ensureDir"
  /\ LET folder == destinationFolder(platform, afterEffectsPath)
     IN IF existsSync(folder)
        THEN /\ ops' = Append(ops, Op("existsSync", folder, "true"))
             /\ pc' = "copy"
             /\ UNCHANGED <<dirs, msgs, exitCode>>
        ELSE \E created \in BOOLEAN :
               /\ ops' = ops \o <<Op("existsSync", folder, "false"),
                                  Op("mkdirSync", folder, IF created THEN "ok" ELSE "fail")>>
               /\ IF created
                  THEN /\ dirs' = dirs \cup Ancestors(folder)
                       /\ pc' = "copy"
                       /\ UNCHANGED <<msgs, exitCode>>
                  ELSE /\ msgs' = msgs \o <<"mkdirError", "adminHint">>
                       /\ Exit(1)
                       /\ UNCHANGED dirs
  /\ UNCHANGED <<platform, history, files, possiblePaths, idx, afterEffectsPath,
                 elevated, run, dirs0, files0>>

\* The state of the filesystem after the source was copied over dst.
CopyOver(dst) == [files EXCEPT ![dst] = files[sourceScript]]

\* Lines 96-107 (win32): Start-Process -Verb RunAs through execSync.  execSync
\* waits for the outer PowerShell only; Start-Process is given no -Wait, so a
\* launched elevated PowerShell does its Copy-Item on its own.
WinElevatedCopy_NoFallback ==
  /\ pc = "copy" /\ platform = "win32"
  /\ \E launched \in BOOLEAN :
       /\ ops' = Append(ops, Op("execSync", destinationScript(platform, afterEffectsPath),
                                IF launched THEN "ok" ELSE "fail"))
       /\ IF launched
          THEN /\ elevated' = "pending"
               /\ msgs' = Append(msgs, "installing")
               /\ pc' = "success"
          ELSE /\ msgs' = msgs \o <<"installing", "elevatedFailed">>
               /\ pc' = "copyFailed"
               /\ UNCHANGED elevated
  /\ UNCHANGED <<platform, history, dirs, files, possiblePaths, idx, afterEffectsPath,
                 exitCode, run, dirs0, files0>>

WinElevatedCopy ==
  /\ pc = "copy" /\ platform = "win32"
  /\ \E launched \in BOOLEAN :
       /\ ops' = Append(ops, Op("execSync", destinationScript(platform, afterEffectsPath),
                                IF launched THEN "ok" ELSE "fail"))
       /\ IF launched
          THEN /\ elevated' = "pending"
               /\ msgs' = Append(msgs, "installing")
               /\ pc' = "success"
          ELSE /\ msgs' = msgs \o <<"installing", "elevatedFailed">>
               /\ pc' = "winNormalCopy"
               /\ UNCHANGED elevated
  /\ UNCHANGED <<platform, history, dirs, files, possiblePaths, idx, afterEffectsPath,
                 exitCode, run, dirs0, files0>>

\* The elevated PowerShell launched by Start-Process ends, having copied or not.
WinElevatedChildDone ==
  /\ platform = "win32" /\ elevated = "pending"
  /\ \E copied \in BOOLEAN :
       /\ files' = IF copied THEN CopyOver(destinationScript(platform, afterEffectsPath))
                   ELSE files
       /\ elevated' = IF copied THEN "ok" ELSE "failed"
  /\ UNCHANGED <<platform, history, dirs, pc, possiblePaths, idx, afterEffectsPath,
                 exitCode, ops, msgs, run, dirs0, files0>>

\* Line 108 (win32): the normal copy after a failed elevated copy.
WinNormalCopy_Retry ==
  /\ pc = "winNormalCopy"
  /\ \E copied \in BOOLEAN :
       /\ ops' = IF copied
                 THEN Append(ops, Op("copyFileSync",
                                     destinationScript(platform, afterEffectsPath), "ok"))
                 ELSE ops \o <<Op("copyFileSync",
                                  destinationScript(platform, afterEffectsPath), "fail"),
                               Op("copyFileSync",
                                  destinationScript(platform, afterEffectsPath), "fail")>>
       /\ files' = IF copied THEN CopyOver(destinationScript(platform, afterEffectsPath))
                   ELSE files
       /\ pc' = IF copied THEN "success" ELSE "copyFailed"
  /\ UNCHANGED <<platform, history, dirs, possiblePaths, idx, afterEffectsPath, exitCode,
                 elevated, msgs, run, dirs0, files0>>

WinNormalCopy_Rethrow ==
  /\ pc = "winNormalCopy"
  /\ \E copied \in BOOLEAN :
       /\ ops' = Append(ops, Op("copyFileSync", destinationScript(platform, afterEffectsPath),
                                IF copied THEN "ok" ELSE "fail"))
       /\ files' = IF copied THEN CopyOver(destinationScript(platform, afterEffectsPath))
                   ELSE files
       /\ pc' = "copyFailed"
  /\ UNCHANGED <<platform, history, dirs, possiblePaths, idx, afterEffectsPath, exitCode,
                 elevated, msgs, run, dirs0, files0>>

WinNormalCopy ==
  /\ pc = "winNormalCopy"
  /\ \E copied \in BOOLEAN :
       /\ ops' = Append(ops, Op("copyFileSync", destinationScript(platform, afterEffectsPath),
                                IF copied THEN "ok" ELSE "fail"))
       /\ files' = IF copied THEN CopyOver(destinationScript(platform, afterEffectsPath))
                   ELSE files
       /\ pc' = IF copied THEN "success" ELSE "copyFailed"
  /\ UNCHANGED <<platform, history, dirs, possiblePaths, idx, afterEffectsPath, exitCode,
                 elevated, msgs, run, dirs0, files0>>

\* Lines 96, 110-116 (darwin): the normal copy comes first.
MacNormalCopy_NoFallback ==
  /\ pc = "copy" /\ platform = "darwin"
  /\ \E copied \in BOOLEAN :
       /\ ops' = Append(ops, Op("copyFileSync", destinationScript(platform, afterEffectsPath),
                                IF copied THEN "ok" ELSE "fail"))
       /\ files' = IF copied THEN CopyOver(destinationScript(platform, afterEffectsPath))
                   ELSE files
       /\ msgs' = IF copied THEN Append(msgs, "installing")
                  ELSE msgs \o <<"installing", "normalFailed">>
       /\ pc' = IF copied THEN "success" ELSE "copyFailed"
  /\ UNCHANGED <<platform, history, dirs, possiblePaths, idx, afterEffectsPath, exitCode,
                 elevated, run, dirs0, files0>>

MacNormalCopy ==
  /\ pc = "copy" /\ platform = "darwin"
  /\ \E copied \in BOOLEAN :
       /\ ops' = Append(ops, Op("copyFileSync", destinationScript(platform, afterEffectsPath),
                                IF copied THEN "ok" ELSE "fail"))
       /\ files' = IF copied THEN CopyOver(destinationScript(platform, afterEffectsPath))
                   ELSE files
       /\ msgs' = IF copied THEN Append(msgs, "installing")
                  ELSE msgs \o <<"installing", "normalFailed">>
       /\ pc' = IF copied THEN "success" ELSE "sudo"
  /\ UNCHANGED <<platform, history, dirs, possiblePaths, idx, afterEffectsPath, exitCode,
                 elevated, run, dirs0, files0>>

\* Line 117 (darwin): execSync starts `sudo cp` and blocks on it.
MacSudoSpawn ==
  /\ pc = "sudo"
  /\ ops' = Append(ops, Op("execSync", destinationScript(platform, afterEffectsPath), "pending"))
  /\ elevated' = "pending"
  /\ pc' = "waitSudo"
  /\ UNCHANGED <<platform, history, dirs, files, possiblePaths, idx, afterEffectsPath,
                 exitCode, msgs, run, dirs0, files0>>

\* Line 117 (darwin): `sudo cp` ends; execSync returns, or throws on a
\* non-zero exit status.
MacSudoDone ==
  /\ pc = "waitSudo" /\ elevated = "pending"
  /\ \E copied \in BOOLEAN :
       /\ files' = IF copied THEN CopyOver(destinationScript(platform, afterEffectsPath))
                   ELSE files
       /\ elevated' = IF copied THEN "ok" ELSE "failed"
       /\ ops' = [ops EXCEPT ![Len(ops)].res = IF copied THEN "ok" ELSE "fail"]
       /\ pc' = IF copied THEN "success" ELSE "copyFailed"
  /\ UNCHANGED <<platform, history, dirs, possiblePaths, idx, afterEffectsPath, exitCode,
                 msgs, run, dirs0, files0>>

\* Lines 121-131: the success report; the script ends and the process exits 0.
ReportSuccess ==
  /\ pc = "success"
  /\ msgs' = msgs \o <<"installedSuccessfully", "nextSteps",
                       IF platform = "win32" THEN "prefsWin" ELSE "prefsMac">>
  /\ Exit(0)
  /\ UNCHANGED <<platform, history, dirs, files, possiblePaths, idx, afterEffectsPath,
                 elevated, ops, run, dirs0, files0>>

\* Lines 132-143: the outer catch.
ReportCopyFailed_NoHint ==
  /\ pc = "copyFailed"
  /\ msgs' = msgs \o <<"installError", "manualInstall", "copySource", "copyDestination">>
  /\ Exit(1)
  /\ UNCHANGED <<platform, history, dirs, files, possiblePaths, idx, afterEffectsPath,
                 elevated, ops, run, dirs0, files0>>

ReportCopyFailed_ExitZero ==
  /\ pc = "copyFailed"
  /\ msgs' = msgs \o <<"installError", "manualInstall", "copySource", "copyDestination",
                       IF platform = "win32" THEN "hintAdministrator" ELSE "hintSudo">>
  /\ Exit(0)
  /\ UNCHANGED <<platform, history, dirs, files, possiblePaths, idx, afterEffectsPath,
                 elevated, ops, run, dirs0, files0>>

ReportCopyFailed ==
  /\ pc = "copyFailed"
  /\ msgs' = msgs \o <<"installError", "manualInstall", "copySource", "copyDestination",
                       IF platform = "win32" THEN "hintAdministrator" ELSE "hintSudo">>
  /\ Exit(1)
  /\ UNCHANGED <<platform, history, dirs, files, possiblePaths, idx, afterEffectsPath,
                 elevated, ops, run, dirs0, files0>>

\* The terminal state of the run, told by the message that opens its report.
Outcome ==
  IF "installedSuccessfully" \in Range(msgs) THEN "Succeeded"
  ELSE IF "unsupported" \in Range(msgs) THEN "UnsupportedPlatform"
  ELSE IF "notFound" \in Range(msgs) THEN "InstallationNotFound"
  ELSE IF "sourceNotFound" \in Range(msgs) THEN "MissingSource"
  ELSE IF "mkdirError" \in Range(msgs) THEN "DirectoryCreationFailed"
  ELSE IF "installError" \in Range(msgs) THEN "CopyFailed"
  ELSE "none"

\* The user invokes the installer again on the filesystem the last run left.
Rerun ==
  /\ pc = "exited" /\ run < MaxRuns /\ elevated # "pending"
  /\ pc' = "resolve"
  /\ possiblePaths' = << >>
  /\ idx' = 1
  /\ afterEffectsPath' = << >>
  /\ exitCode' = -1
  /\ elevated' = "none"
  /\ ops' = << >>
  /\ msgs' = << >>
  /\ run' = run + 1
  /\ dirs0' = dirs
  /\ files0' = files
  /\ history' = Append(history, [kind |-> Outcome, code |-> exitCode])
  /\ UNCHANGED <<platform, dirs, files>>

Next ==
  \/ Resolve
  \/ Probe
  \/ CheckFound
  \/ CheckSource
  \/ EnsureDir
  \/ WinElevatedCopy
  \/ WinElevatedChildDone
  \/ WinNormalCopy
  \/ MacNormalCopy
  \/ MacSudoSpawn
  \/ MacSudoDone
  \/ ReportSuccess
  \/ ReportCopyFailed
  \/ Rerun

Spec == Init /\ [][Next]_vars

\* The steps of the script itself: synchronous code that runs on to its end.
ScriptStep ==
  \/ Resolve
  \/ Probe
  \/ CheckFound
  \/ CheckSource
  \/ EnsureDir
  \/ WinElevatedCopy
  \/ WinNormalCopy
  \/ MacNormalCopy
  \/ MacSudoSpawn
  \/ ReportSuccess
  \/ ReportCopyFailed

\* The script keeps running, and every elevated subordinate process that was
\* started ends (the user answers the prompt).
FairSpec ==
  /\ Init /\ [][Next]_vars
  /\ WF_vars(ScriptStep)
  /\ WF_vars(MacSudoDone)
  /\ WF_vars(WinElevatedChildDone)

TypeOK ==
  /\ platform \in Platforms
  /\ pc \in {"resolve", "locate", "located", "checkSource", "ensureDir", "copy",
             "winNormalCopy", "sudo", "waitSudo", "success", "copyFailed", "exited"}
  /\ exitCode \in {-1, 0, 1}
  /\ elevated \in {"none", "pending", "ok", "failed"}
  /\ run \in 1..MaxRuns

(***************************************************************************)
(* Vocabulary of the properties.                                           *)
(***************************************************************************)
Supported == platform \in {"win32", "darwin"}
Exited == pc = "exited"
Printed(m) == m \in Range(msgs)

\* The terminal states, told apart by the message that opens their report.
Succeeded == Exited /\ Printed("installedSuccessfully")
UnsupportedPlatform == Exited /\ Printed("unsupported")
InstallationNotFound == Exited /\ Printed("notFound")
MissingSource == Exited /\ Printed("sourceNotFound")
DirectoryCreationFailed == Exited /\ Printed("mkdirError")
CopyFailed == Exited /\ Printed("installError")

\* Positions of the calls of this run, by kind.
Calls(name) == {k \in DOMAIN ops : ops[k].op = name}
CallsWith(name, res) == {k \in DOMAIN ops : ops[k].op = name /\ ops[k].res = res}
CopyAttempts == Calls("copyFileSync") \cup Calls("execSync")
Mutations == Calls("mkdirSync") \cup CopyAttempts
FilesystemUnchanged == dirs = dirs0 /\ files = files0

\* The candidate roots that exist, as indexes of the newest-first list.
ExistingCandidates(p) ==
  {k \in DOMAIN getPossibleAfterEffectsPaths(p) : getPossibleAfterEffectsPaths(p)[k] \in dirs0}
Smallest(S) == CHOOSE k \in S : \A j \in S : k <= j

\* The copy stage of the script is over.
CopyStageOver == pc \in {"success", "copyFailed", "exited"}

\* C1: on a platform other than win32 and darwin the run reports the
\* unsupported-platform error and exits non-zero, and it makes no existence
\* probe, directory creation, file copy or process spawn.
C1_UnsupportedNoFilesystemAccess ==
  ~Supported =>
    /\ ops = << >>
    /\ elevated = "none"
    /\ FilesystemUnchanged
    /\ pc \in {"resolve", "exited"}
    /\ Exited => exitCode = 1 /\ Printed("unsupported") /\ Printed("onlyWinMac")

C1_Witness == platform = "linux" /\ Exited /\ exitCode = 1

\* C2: the locator selects the existing candidate of smallest index in the
\* newest-first list, whatever subset of the candidates exists, and the run
\* ends in NotFound (non-zero exit) exactly when no candidate exists.
C2_LocatorSelectsFirstExisting ==
  (Supported /\ pc \notin {"resolve", "locate"}) =>
    /\ IF ExistingCandidates(platform) = {}
       THEN afterEffectsPath = << >>
       ELSE afterEffectsPath =
              getPossibleAfterEffectsPaths(platform)[Smallest(ExistingCandidates(platform))]
    /\ Exited => (InstallationNotFound <=> ExistingCandidates(platform) = {})
    /\ InstallationNotFound => exitCode = 1

C2_Witness ==
  /\ platform = "win32"
  /\ ExistingCandidates(platform) = {2, 3}
  /\ pc = "checkSource"
  /\ afterEffectsPath = <<"C:", "Program Files", "Adobe", "Adobe After Effects 2024">>

\* C3: a directory creation, a file copy or an elevated spawn happens only
\* after the platform was found supported, a root was located and the source
\* was found to exist; a run ending in UnsupportedPlatform,
\* InstallationNotFound or MissingSource leaves the filesystem unchanged.
C3_MutationsOnlyAfterPreconditions ==
  /\ \A k \in Mutations :
       /\ Supported
       /\ afterEffectsPath # << >>
       /\ \E r \in 1..(k - 1), s \in 1..(k - 1) :
            /\ r < s
            /\ ops[r] = Op("existsSync", afterEffectsPath, "true")
            /\ ops[s] = Op("existsSync", sourceScript, "true")
  /\ (UnsupportedPlatform \/ InstallationNotFound \/ MissingSource) =>
       Mutations = {} /\ elevated = "none" /\ FilesystemUnchanged

C3_Witness ==
  /\ MissingSource
  /\ afterEffectsPath # << >>
  /\ ~existsSync(destinationFolder(platform, afterEffectsPath))

\* C4: on win32 the elevated copy is the first copy attempt, the direct copy
\* is attempted if and only if invoking the elevated copy failed, and when
\* that direct copy succeeds the run ends successfully with exit code 0.
C4_WindowsElevatedFirst ==
  platform = "win32" =>
    /\ CopyAttempts # {} => ops[Smallest(CopyAttempts)].op = "execSync"
    /\ \A k \in Calls("copyFileSync") :
         k > 1 /\ ops[k - 1].op = "execSync" /\ ops[k - 1].res = "fail"
    /\ CopyStageOver => (Calls("copyFileSync") # {} <=> CallsWith("execSync", "fail") # {})
    /\ CallsWith("copyFileSync", "ok") # {} =>
         /\ pc \in {"success", "exited"}
         /\ Exited => exitCode = 0 /\ Succeeded

C4_Witness ==
  /\ platform = "win32"
  /\ Exited /\ exitCode = 0
  /\ CallsWith("execSync", "fail") # {}
  /\ CallsWith("copyFileSync", "ok") # {}

\* C5: on darwin the direct copy is the first copy attempt, and the
\* superuser-elevated copy command is invoked if and only if the direct copy
\* failed.
C5_MacDirectFirst ==
  platform = "darwin" =>
    /\ CopyAttempts # {} => ops[Smallest(CopyAttempts)].op = "copyFileSync"
    /\ \A k \in Calls("execSync") :
         k > 1 /\ ops[k - 1].op = "copyFileSync" /\ ops[k - 1].res = "fail"
    /\ (CopyStageOver \/ pc = "waitSudo") =>
         (Calls("execSync") # {} <=> CallsWith("copyFileSync", "fail") # {})

C5_Witness ==
  /\ platform = "darwin"
  /\ Exited
  /\ CallsWith("copyFileSync", "fail") # {}
  /\ Calls("execSync") # {}

\* C6: the run ends in CopyFailed (manual copy instructions, non-zero exit)
\* only when the elevated and the direct copy attempt were both made and both
\* failed; the failure of one attempt alone never ends the run.
C6_CopyFailedOnlyWhenBothFailed ==
  /\ CopyFailed =>
       /\ exitCode = 1
       /\ Printed("manualInstall") /\ Printed("copySource") /\ Printed("copyDestination")
       /\ CallsWith("execSync", "fail") # {}
       /\ CallsWith("copyFileSync", "fail") # {}
       /\ \A k \in CopyAttempts : ops[k].res = "fail"
  /\ (Exited /\ Cardinality(CopyAttempts) = 1) =>
       \A k \in CopyAttempts : ops[k].res = "ok"

C6_Witness ==
  /\ CopyFailed
  /\ Cardinality(CopyAttempts) = 2

\* The run went through every stage in order: a root probe answered true, then
\* the source probe answered true, then the destination folder was found or
\* created, and the last call is a copy attempt that reported success.
PassedEveryStage ==
  /\ Supported
  /\ \E r, s, d \in DOMAIN ops :
       /\ r < s /\ s < d /\ d < Len(ops)
       /\ ops[r] = Op("existsSync", afterEffectsPath, "true")
       /\ ops[s] = Op("existsSync", sourceScript, "true")
       /\ \/ ops[d] = Op("existsSync", destinationFolder(platform, afterEffectsPath), "true")
          \/ ops[d] = Op("mkdirSync", destinationFolder(platform, afterEffectsPath), "ok")
       /\ Len(ops) \in CopyAttempts
       /\ ops[Len(ops)].res = "ok"

\* C7: the exit status is 0 if and only if the run passed every stage in
\* order; every run ending in one of the five failure kinds exits non-zero.
C7_ExitZeroIffEveryStagePassed ==
  Exited =>
    /\ exitCode \in {0, 1}
    /\ exitCode = 0 <=> PassedEveryStage
    /\ exitCode = 0 <=> Succeeded
    /\ (UnsupportedPlatform \/ InstallationNotFound \/ MissingSource
          \/ DirectoryCreationFailed \/ CopyFailed) => exitCode # 0
    /\ Succeeded \/ UnsupportedPlatform \/ InstallationNotFound \/ MissingSource
          \/ DirectoryCreationFailed \/ CopyFailed

C7_Witness == Exited /\ exitCode = 0 /\ PassedEveryStage

\* C8: the parent blocks on the elevated copy process and propagates its exit
\* status: success is never reported while the elevated copy is pending, and
\* an elevated copy that failed is never reported as a successful install.
C8_ElevatedCopyAwaited ==
  (Printed("installedSuccessfully") \/ (Exited /\ exitCode = 0)) =>
     elevated \notin {"pending", "failed"}

\* C9: after a run that exits with status 0 the destination file exists and
\* holds the content of the source, whatever was there before, also after a
\* second run.
C9_DestinationEqualsSourceAfterSuccess ==
  (Exited /\ exitCode = 0) =>
    /\ files[destinationScript(platform, afterEffectsPath)] # 0
    /\ files[destinationScript(platform, afterEffectsPath)] = files[sourceScript]

\* C10: when creating the destination directory fails the run reports it with
\* the administrative-privileges hint, exits non-zero and makes no copy
\* attempt, direct or elevated.
C10_MkdirFailureStopsBeforeCopy ==
  CallsWith("mkdirSync", "fail") # {} =>
    /\ DirectoryCreationFailed
    /\ Printed("adminHint")
    /\ exitCode = 1
    /\ CopyAttempts = {}
    /\ elevated = "none"
    /\ FilesystemUnchanged

C10_Witness ==
  /\ CallsWith("mkdirSync", "fail") # {}
  /\ Exited

FailureKinds == {"UnsupportedPlatform", "InstallationNotFound", "MissingSource",
                 "DirectoryCreationFailed", "CopyFailed"}

\* The privilege hint of the platform in the copy-failure report.
PlatformHint == IF platform = "win32" THEN "hintAdministrator" ELSE "hintSudo"

\* C11 as stated: every terminal state prints a message, and every failure
\* terminal state prints the source path, the destination path and the
\* platform-specific privilege hint.
C11_EveryFailurePrintsRemediation ==
  Exited =>
    /\ msgs # << >>
    /\ Outcome \in FailureKinds =>
         Printed("copySource") /\ Printed("copyDestination") /\ Printed(PlatformHint)

\* C11 as amended: every terminal state prints the message that identifies
\* it; only CopyFailed prints the source path, the destination path and the
\* platform-specific privilege hint; InstallationNotFound prints the relative
\* source path and the destination template, MissingSource the source path
\* and the build instruction, DirectoryCreationFailed the generic
\* administrative-privileges hint, UnsupportedPlatform the error alone.
C11_TerminalMessages ==
  Exited =>
    /\ Outcome # "none"
    /\ CopyFailed =>
         /\ Printed("manualInstall") /\ Printed("copySource") /\ Printed("copyDestination")
         /\ Printed(PlatformHint)
    /\ InstallationNotFound =>
         /\ Printed("copyManually") /\ Printed("sourceRelative")
         /\ Printed(IF platform = "win32" THEN "targetTemplateWin" ELSE "targetTemplateMac")
    /\ MissingSource => Printed("runBuild")
    /\ DirectoryCreationFailed => Printed("adminHint")
    /\ (Outcome \in FailureKinds /\ ~CopyFailed) =>
         ~Printed("copyDestination") /\ ~Printed("hintAdministrator") /\ ~Printed("hintSudo")

C11_Witness == CopyFailed /\ Printed(PlatformHint)

\* C12 as stated: two runs that fail at different stages exit with different
\* codes, and zero is used only by the successful terminal state.
C12_DistinctExitCodes ==
  (Exited /\ Outcome \in FailureKinds) =>
    /\ exitCode # 0
    /\ \A k \in DOMAIN history :
         (history[k].kind \in FailureKinds /\ history[k].kind # Outcome) =>
           history[k].code # exitCode

\* C12 as amended: each failure stage is terminal and exits with the same
\* non-zero code 1; zero is used only by the successful terminal state.
C12_ExitCodes ==
  /\ Exited => (Outcome \in FailureKinds => exitCode = 1)
                 /\ (exitCode = 0 <=> Outcome = "Succeeded")
  /\ \A k \in DOMAIN history :
       /\ history[k].kind \in FailureKinds => history[k].code = 1
       /\ history[k].code = 0 <=> history[k].kind = "Succeeded"

C12_FailureExitsOne ==
  /\ []C12_ExitCodes
  /\ [][(Exited /\ Outcome \in FailureKinds) =>
          \/ run' = run + 1
          \/ pc' = pc /\ exitCode' = exitCode /\ msgs' = msgs /\ ops' = ops
               /\ dirs' = dirs /\ files' = files]_vars

C12_Witness ==
  /\ Exited /\ Outcome = "CopyFailed"
  /\ \E k \in DOMAIN history : history[k].kind = "DirectoryCreationFailed"

\* C13: no failure of a directory creation, a direct copy or an elevated copy
\* invocation escapes unhandled: it triggers the fallback attempt of the
\* platform, or it leads to a printed error message and a non-zero exit; no
\* run ends without a message.
C13_NoUnhandledFailure ==
  /\ \A k \in CallsWith("mkdirSync", "fail") :
       Exited /\ exitCode = 1 /\ Printed("mkdirError")
  /\ \A k \in CopyAttempts :
       ops[k].res = "fail" =>
         \/ k < Len(ops) /\ k + 1 \in CopyAttempts /\ ops[k + 1].op # ops[k].op
         \/ k = Len(ops) /\ k - 1 \notin CopyAttempts /\ pc \in {"winNormalCopy", "sudo"}
         \/ k = Len(ops) /\ k - 1 \in CopyAttempts /\ pc = "copyFailed"
         \/ k = Len(ops) /\ k - 1 \in CopyAttempts
              /\ Exited /\ exitCode = 1 /\ Printed("installError")
  /\ Exited => msgs # << >> /\ (exitCode # 0 => Outcome \in FailureKinds)

C13_Witness ==
  /\ Exited
  /\ CallsWith("copyFileSync", "fail") # {}
  /\ CallsWith("execSync", "ok") # {}

\* The probes of the destination folder made by this run.
FolderChecks ==
  {k \in Calls("existsSync") :
     afterEffectsPath # << >> /\ ops[k].path = destinationFolder(platform, afterEffectsPath)}

\* C14: when the destination directory exists at the check the run makes no
\* directory-creation attempt; when it does not, exactly one recursive
\* creation is attempted, and it precedes every copy attempt.
C14_MkdirOnlyWhenFolderAbsent ==
  /\ pc \in {"copy", "winNormalCopy", "sudo", "waitSudo", "success", "copyFailed"} =>
       FolderChecks # {}
  /\ (CopyAttempts # {} \/ Calls("mkdirSync") # {}) => FolderChecks # {}
  /\ FolderChecks # {} =>
       /\ Cardinality(FolderChecks) = 1
       /\ LET c == Smallest(FolderChecks)
              folder == destinationFolder(platform, afterEffectsPath)
          IN IF folder \in dirs0
             THEN ops[c].res = "true" /\ Calls("mkdirSync") = {}
             ELSE /\ ops[c].res = "false"
                  /\ Calls("mkdirSync") = {c + 1}
                  /\ ops[c + 1].path = folder
                  /\ ops[c + 1].res = "ok" => Ancestors(folder) \subseteq dirs
                  /\ \A k \in CopyAttempts : k > c + 1

C14_Witness ==
  /\ CallsWith("mkdirSync", "ok") # {}
  /\ CopyAttempts # {}
  /\ Exited

\* C15: no failure is retried beyond the fallback pair: a run makes at most
\* one elevated invocation and at most one direct copy, and no stage before
\* the copy is executed twice.
C15_NoRetry ==
  /\ Cardinality(Calls("execSync")) <= 1
  /\ Cardinality(Calls("copyFileSync")) <= 1
  /\ Cardinality(Calls("mkdirSync")) <= 1
  /\ \A j, k \in DOMAIN ops :
       (j < k) => ~(ops[j].op = ops[k].op /\ ops[j].path = ops[k].path)
  /\ \A j, k \in DOMAIN ops :
       (j < k /\ k \in CopyAttempts) => (j \in CopyAttempts \/ ops[j].op \in {"existsSync", "mkdirSync"})
  /\ \A j, k \in DOMAIN ops : (j < k /\ j \in CopyAttempts) => k \in CopyAttempts

C15_Witness ==
  /\ Succeeded
  /\ Cardinality(CopyAttempts) = 2

\* The sub-path of the ScriptUI Panels folder below an installation root.
SubPath ==
  IF platform = "win32" THEN <<"Support Files", "Scripts", "ScriptUI Panels">>
  ELSE <<"Scripts", "ScriptUI Panels">>

\* C16: every directory creation and every copy attempt targets the
\* destination derived from the located root: the folder is the selected
\* candidate root followed by the sub-path of the platform, the locator found
\* that root to exist in this run, and at every copy attempt the folder was
\* found at the check or created successfully.
C16_TargetsDerivedFromLocatedRoot ==
  \A k \in Mutations :
    /\ afterEffectsPath \in Range(possiblePaths)
    /\ afterEffectsPath \in dirs0
    /\ \E r \in 1..(k - 1) : ops[r] = Op("existsSync", afterEffectsPath, "true")
    /\ ops[k].path = IF ops[k].op = "mkdirSync"
                     THEN afterEffectsPath \o SubPath
                     ELSE afterEffectsPath \o SubPath \o <<"mcp-bridge-auto.jsx">>
    /\ k \in CopyAttempts =>
         /\ afterEffectsPath \o SubPath \in dirs
         /\ \E d \in 1..(k - 1) :
              \/ ops[d] = Op("existsSync", afterEffectsPath \o SubPath, "true")
              \/ ops[d] = Op("mkdirSync", afterEffectsPath \o SubPath, "ok")

C16_Witness ==
  /\ platform = "darwin"
  /\ afterEffectsPath = <<"/", "Applications", "Adobe After Effects 2023">>
  /\ CallsWith("mkdirSync", "ok") # {}
  /\ CopyAttempts # {}

\* The year tags of the candidate roots, newest first, and the folder name of
\* a year.
Years == <<2025, 2024, 2023, 2022, 2021>>
FolderOfYear(y) ==
  CASE y = 2025 -> "Adobe After Effects 2025"
    [] y = 2024 -> "Adobe After Effects 2024"
    [] y = 2023 -> "Adobe After Effects 2023"
    [] y = 2022 -> "Adobe After Effects 2022"
    [] y = 2021 -> "Adobe After Effects 2021"

\* C17: for win32 and for darwin the resolver yields exactly five candidate
\* roots, one per year of the descending sequence 2025..2021, and a non-empty
\* destination sub-path; for any other identifier it yields no candidates.
C17_FiveCandidatesPerSupportedPlatform ==
  pc # "resolve" =>
    IF Supported
    THEN /\ Len(possiblePaths) = 5
         /\ \A k \in 1..Len(possiblePaths) :
              /\ Years[k] = 2026 - k
              /\ possiblePaths[k] =
                   (IF platform = "win32" THEN <<"C:", "Program Files", "Adobe">>
                    ELSE <<"/", "Applications">>) \o <<FolderOfYear(Years[k])>>
              /\ Len(destinationFolder(platform, possiblePaths[k])) > Len(possiblePaths[k])
              /\ SubSeq(destinationFolder(platform, possiblePaths[k]), 1, Len(possiblePaths[k]))
                   = possiblePaths[k]
    ELSE possiblePaths = << >>

C17_Witness ==
  /\ platform = "darwin"
  /\ pc = "locate"
  /\ Len(possiblePaths) = 5

\* The reports that open a terminal state.
OpeningMessages == {"installedSuccessfully", "unsupported", "notFound", "sourceNotFound",
                    "mkdirError", "installError"}

\* C18: when every elevated subordinate process that was started ends, every
\* run reaches a terminal state, exactly one of success and the five failure
\* kinds, and after reaching it no filesystem or process operation of the run
\* takes place.
C18_RunTerminatesAndStops ==
  /\ (pc # "exited") ~> (pc = "exited")
  /\ [](Exited => Cardinality({m \in OpeningMessages : Printed(m)}) = 1)
  /\ [][(Exited /\ run' = run) =>
          /\ pc' = pc /\ ops' = ops
          /\ dirs' = dirs /\ files' = files]_vars
====
